---- MODULE Spec2Model ----
(***************************************************************************)
(* A model of three parts of the repository:                               *)
(*   - wagtail/admin/mail.py: the Notifier classes (email notifications)   *)
(*   - wagtail/admin/api/filters.py: HasChildrenFilter, ForExplorerFilter  *)
(*   - wagtail/management/commands: set_url_paths and move_pages           *)
(* Each part has its own specification (SpecMail, SpecFilter, SpecTree)    *)
(* over the same variables; the variables of the other parts stay fixed.   *)
(***************************************************************************)
EXTENDS Integers, Sequences, FiniteSets, TLC

(* ------------------------------- bounds -------------------------------- *)
MaxUsers == 2
MaxDefects == 1
MaxItems == 2
MaxNumchild == 2
MaxPages == 3

VARIABLES
    \* mail: the user table, the settings and the last Notifier call
    is_active, email, is_superuser, profile, include_superusers, call,
    \* filters: the queryset handed to the filter backend and the response
    queryset, response,
    \* page tree: children (ordered, index 0 holds the root nodes), slug,
    \* url_path, and a record of the last management command
    children, slug, url_path, cmd

mailVars == <<is_active, email, is_superuser, profile, include_superusers, call>>
filterVars == <<queryset, response>>
treeVars == <<children, slug, url_path, cmd>>
vars == <<mailVars, filterVars, treeVars>>

(* ------------------------------ utilities ------------------------------ *)
Range(s) == {s[i] : i \in 1..Len(s)}

RECURSIVE SortedSeq(_)
\* the elements of a set of numbers in increasing order
SortedSeq(S) ==
    IF S = {} THEN <<>>
    ELSE LET m == CHOOSE x \in S : \A y \in S : x <= y
         IN <<m>> \o SortedSeq(S \ {m})

(***************************************************************************)
(*                        wagtail/admin/mail.py                            *)
(***************************************************************************)
Users == 1..MaxUsers
NoUser == 0          \* Python None where a user is expected

Notifiers == {"WorkflowStateApprovalEmailNotifier",
              "WorkflowStateRejectionEmailNotifier",
              "WorkflowStateSubmissionEmailNotifier",
              "GroupApprovalTaskStateSubmissionEmailNotifier"}

WorkflowStateNotifiers == {"WorkflowStateApprovalEmailNotifier",
                           "WorkflowStateRejectionEmailNotifier",
                           "WorkflowStateSubmissionEmailNotifier"}

\* the class attribute `notification` of each notifier
notification(n) ==
    CASE n = "WorkflowStateApprovalEmailNotifier" -> "approved"
      [] n = "WorkflowStateRejectionEmailNotifier" -> "rejected"
      [] n = "WorkflowStateSubmissionEmailNotifier" -> "submitted"
      [] n = "GroupApprovalTaskStateSubmissionEmailNotifier" -> "submitted"

\* self.valid_classes as set by the __init__ of the two base notifiers
valid_classes(n) ==
    IF n \in WorkflowStateNotifiers THEN {"WorkflowState"} ELSE {"TaskState"}

template_directory == "wagtailadmin/notifications/"

\* The instances a signal can hand to a notifier.  cls is the class of the
\* instance ("NoneType" for the default instance=None); requested_by is the
\* nullable foreign key of a WorkflowState; for a TaskState, task is the
\* class of instance.task.specific and group_members the users that belong
\* to one of task.groups (the rows of the groups__in query).
Instances ==
    [cls : {"WorkflowState"}, requested_by : Users \cup {NoUser},
     task : {"n/a"}, group_members : {{}}]
    \cup [cls : {"TaskState"}, requested_by : {NoUser},
          task : {"GroupApprovalTask"}, group_members : SUBSET Users]
    \cup [cls : {"TaskState"}, requested_by : {NoUser},
          task : {"Task"}, group_members : {{}}]
    \cup [cls : {"Page", "NoneType"}, requested_by : {NoUser},
          task : {"n/a"}, group_members : {{}}]

NotificationTypes == {"approved", "rejected", "submitted"}
PreferenceFields == {"approved_notifications", "rejected_notifications",
                     "submitted_notifications"}

\* Faults of the framework during a call: a template that does not exist
\* (render_to_string raises on it) or a mail backend that fails (email.send
\* raises).
Faults == {"none", "subject", "text", "html", "send"}

\* Notifier.can_handle
Notifier_can_handle(n, instance) == instance.cls \in valid_classes(n)

\* BaseGroupApprovalTaskStateEmailNotifier.can_handle
GroupApproval_can_handle(n, instance) ==
    IF Notifier_can_handle(n, instance) /\ instance.task = "GroupApprovalTask"
    THEN TRUE
    ELSE FALSE

can_handle(n, instance) ==
    IF n \in WorkflowStateNotifiers
    THEN Notifier_can_handle(n, instance)
    ELSE GroupApproval_can_handle(n, instance)

\* WorkflowStateApprovalEmailNotifier.get_recipient_users
Approval_get_recipient_users(workflow_state, user) ==
    LET triggering_user == user
        requested_by == workflow_state.requested_by
    IN IF requested_by # triggering_user THEN {requested_by} ELSE {}

\* WorkflowStateRejectionEmailNotifier.get_recipient_users
Rejection_get_recipient_users(workflow_state, user) ==
    LET triggering_user == user
        requested_by == workflow_state.requested_by
    IN IF requested_by # triggering_user THEN {requested_by} ELSE {}

\* QuerySet.exclude(pk=...) returns a new queryset; the receiver is unchanged
exclude(recipients, pk) == recipients \ {pk}

\* WorkflowStateSubmissionEmailNotifier.get_recipient_users: the result of
\* recipients.exclude(...) is not assigned, so what is returned is the
\* queryset as it was before the exclude.
Submission_get_recipient_users(workflow_state, user) ==
    LET triggering_user == user
        recipients0 == {}
        recipients1 == IF include_superusers
                       THEN {u \in Users : is_superuser[u]}
                       ELSE recipients0
        discarded == IF triggering_user # NoUser
                     THEN exclude(recipients1, triggering_user)
                     ELSE recipients1
    IN recipients1

\* BaseGroupApprovalTaskStateEmailNotifier.get_recipient_users
GroupApproval_get_recipient_users(task_state, user) ==
    LET triggering_user == user
        group_members == task_state.group_members
        recipients0 == group_members
        recipients1 == IF include_superusers
                       THEN recipients0 \cup {u \in Users : is_superuser[u]}
                       ELSE recipients0
    IN IF triggering_user # NoUser
       THEN exclude(recipients1, triggering_user)
       ELSE recipients1

get_recipient_users(n, instance, user) ==
    CASE n = "WorkflowStateApprovalEmailNotifier" ->
            Approval_get_recipient_users(instance, user)
      [] n = "WorkflowStateRejectionEmailNotifier" ->
            Rejection_get_recipient_users(instance, user)
      [] n = "WorkflowStateSubmissionEmailNotifier" ->
            Submission_get_recipient_users(instance, user)
      [] n = "GroupApprovalTaskStateSubmissionEmailNotifier" ->
            GroupApproval_get_recipient_users(instance, user)

\* UserProfile.get_for_user(recipient): the profile row of the user
UserProfile_get_for_user(recipient) == profile[recipient]

\* get_valid_recipients without the is_active test
get_valid_recipients_inactive_too(n, instance, user) ==
    LET candidates == get_recipient_users(n, instance, user)
    IN IF NoUser \in candidates
       THEN [raised |-> TRUE, value |-> {}]
       ELSE [raised |-> FALSE,
             value |-> {recipient \in candidates :
                          /\ email[recipient] # ""
                          /\ UserProfile_get_for_user(recipient)
                                [notification(n) \o "_notifications"]}]

\* EmailNotificationMixin.get_valid_recipients.  A recipient that is None
\* (a WorkflowState whose requested_by is null) has no is_active attribute:
\* the comprehension raises AttributeError.
get_valid_recipients(n, instance, user) ==
    LET candidates == get_recipient_users(n, instance, user)
    IN IF NoUser \in candidates
       THEN [raised |-> TRUE, value |-> {}]
       ELSE [raised |-> FALSE,
             value |-> {recipient \in candidates :
                          /\ is_active[recipient]
                          /\ email[recipient] # ""
                          /\ UserProfile_get_for_user(recipient)
                                [notification(n) \o "_notifications"]}]

\* Notifier.get_template_base_prefix: camelcase_to_underscore(class name) + "_"
get_template_base_prefix(instance) ==
    (CASE instance.cls = "WorkflowState" -> "workflow_state"
       [] instance.cls = "TaskState" -> "task_state"
       [] instance.cls = "Page" -> "page"
       [] OTHER -> "none_type") \o "_"

\* EmailNotificationMixin.get_template_set
get_template_set(n, instance) ==
    LET template_base == get_template_base_prefix(instance) \o notification(n)
    IN [subject |-> template_directory \o template_base \o "_subject.txt",
        text |-> template_directory \o template_base \o ".txt",
        html |-> template_directory \o template_base \o ".html"]

\* send_mail: one EmailMultiAlternatives with the Auto-Submitted header, on
\* which send() is called.  The result is the sequence of messages built.
send_mail(subject, message, html_message, recipient_list) ==
    <<[subject |-> subject, message |-> message, html_message |-> html_message,
       recipient_list |-> recipient_list, from_email |-> "DEFAULT_FROM_EMAIL",
       extra_headers |-> {<<"Auto-Submitted", "auto-generated">>}]>>

\* send_emails sending one message to each recipient in turn
send_emails_per_recipient(template_set, recipients, fault) ==
    IF fault \in {"subject", "text", "html", "send"}
    THEN [result |-> "raised", rendered |-> <<>>, mails |-> <<>>]
    ELSE [result |-> "None",
          rendered |-> <<template_set.subject, template_set.text, template_set.html>>,
          mails |-> [i \in 1..Cardinality(recipients) |->
                        send_mail(template_set.subject, template_set.text,
                                  template_set.html,
                                  {SortedSeq(recipients)[i]})[1]]]

\* EmailNotificationMixin.send_emails: renders subject, text and html in this
\* order, then calls send_mail; there is no return statement, so the value is
\* None.  mails are the messages send_mail was called for; when the backend
\* fails, email.send() raises out of the call.
send_emails(template_set, recipients, fault) ==
    IF fault = "subject"
    THEN [result |-> "raised", rendered |-> <<>>, mails |-> <<>>]
    ELSE IF fault = "text"
    THEN [result |-> "raised", rendered |-> <<template_set.subject>>, mails |-> <<>>]
    ELSE IF fault = "html"
    THEN [result |-> "raised",
          rendered |-> <<template_set.subject, template_set.text>>, mails |-> <<>>]
    ELSE LET rendered == <<template_set.subject, template_set.text, template_set.html>>
         IN [result |-> IF fault = "send" THEN "raised" ELSE "None",
             rendered |-> rendered,
             mails |-> send_mail(template_set.subject, template_set.text,
                                 template_set.html, recipients)]

\* EmailNotificationMixin.send_notifications
send_notifications(template_set, recipients, fault) ==
    send_emails(template_set, recipients, fault)

\* __call__ without the early return on an empty recipient set
Notifier_call_no_empty_check(n, instance, user, fault) ==
    IF ~can_handle(n, instance)
    THEN [result |-> "False", rendered |-> <<>>, mails |-> <<>>]
    ELSE LET recipients == get_valid_recipients(n, instance, user)
         IN IF recipients.raised
            THEN [result |-> "raised", rendered |-> <<>>, mails |-> <<>>]
            ELSE send_notifications(get_template_set(n, instance),
                                    recipients.value, fault)

\* Notifier.__call__
Notifier_call(n, instance, user, fault) ==
    IF ~can_handle(n, instance)
    THEN [result |-> "False", rendered |-> <<>>, mails |-> <<>>]
    ELSE LET recipients == get_valid_recipients(n, instance, user)
         IN IF recipients.raised
            THEN [result |-> "raised", rendered |-> <<>>, mails |-> <<>>]
            ELSE IF recipients.value = {}
            THEN [result |-> "True", rendered |-> <<>>, mails |-> <<>>]
            ELSE send_notifications(get_template_set(n, instance),
                                    recipients.value, fault)

NoCall == [notifier |-> "none", instance |-> [cls |-> "NoneType",
           requested_by |-> NoUser, task |-> "n/a", group_members |-> {}],
           user |-> NoUser, handled |-> FALSE, recipient_users |-> {},
           recipients_raised |-> FALSE, recipients |-> {}, result |-> "none", rendered |-> <<>>, mails |-> <<>>]

\* The number of departures of the user table from "active, with an email
\* address, every notification preference on (the default of UserProfile)".
Defects(act, em, prof) ==
    Cardinality({u \in Users : ~act[u]})
    + Cardinality({u \in Users : em[u] = ""})
    + Cardinality({p \in Users \X PreferenceFields : ~prof[p[1]][p[2]]})

\* A signal fires: notifier n is called with an instance and the `user` kwarg.
\* call records what this one call did, until the signal dispatch returns.
Call(n, instance, user, fault) ==
    /\ \E handled \in {can_handle(n, instance)} :
       \E candidates \in {IF handled THEN get_recipient_users(n, instance, user)
                          ELSE {}} :
       \E valid \in {IF handled THEN get_valid_recipients(n, instance, user)
                     ELSE [raised |-> FALSE, value |-> {}]} :
       \E out \in {Notifier_call(n, instance, user, fault)} :
          \* a fault is met only by a call that gets to render and send
          /\ (fault # "none") => (handled /\ valid.value # {})
          /\ call' = [notifier |-> n, instance |-> instance, user |-> user,
                      handled |-> handled,
                      recipient_users |-> candidates,
                      recipients_raised |-> valid.raised,
                      recipients |-> valid.value,
                      result |-> out.result, rendered |-> out.rendered,
                      mails |-> out.mails]
    /\ UNCHANGED <<is_active, email, is_superuser, profile, include_superusers>>

NotifierCall ==
    /\ call = NoCall
    /\ \E n \in Notifiers, instance \in Instances, user \in Users \cup {NoUser},
          fault \in Faults : Call(n, instance, user, fault)

\* The signal dispatch returns to the sender: the record of the call is dropped
SignalReturn ==
    /\ call # NoCall
    /\ call' = NoCall
    /\ UNCHANGED <<is_active, email, is_superuser, profile, include_superusers>>

(***************************************************************************)
(*                     wagtail/admin/api/filters.py                        *)
(***************************************************************************)
\* the rows of the listing: primary key, number of children, explorer flag
Items == [id : 1..MaxItems, numchild : 0..MaxNumchild, for_explorer : BOOLEAN]

\* The encodings parse_boolean accepts, and some it does not
Truthy == {"true", "1"}
Falsy == {"false", "0"}
Invalid == {"True", "yes"}
ParamValues == Truthy \cup Falsy \cup Invalid
ParamNames == {"has_children", "for_explorer"}

\* request.GET: a mapping of some of the parameter names to strings
Requests == UNION {[names -> ParamValues] : names \in SUBSET ParamNames}

\* wagtail.api.v2.utils.parse_boolean: "true"/"1" give True, "false"/"0"
\* give False, anything else raises ValueError
parse_boolean(value) ==
    IF value \in Truthy THEN [raised |-> FALSE, value |-> TRUE]
    ELSE IF value \in Falsy THEN [raised |-> FALSE, value |-> FALSE]
    ELSE [raised |-> TRUE, value |-> FALSE]

\* The lookups of queryset.filter(...); filter keeps the rows that match, in
\* order (SelectSeq)
numchild__gt_0(item) == item.numchild > 0
numchild_0(item) == item.numchild = 0
for_explorer_True(item) == item.for_explorer = TRUE

\* filter_queryset whose True branch keeps numchild >= 0
numchild__gte_0(item) == item.numchild >= 0
HasChildrenFilter_gte(GET, qs) ==
    IF "has_children" \in DOMAIN GET
    THEN LET has_children_filter == parse_boolean(GET["has_children"])
         IN IF has_children_filter.raised
            THEN [status |-> "BadRequestError",
                  message |-> "has_children must be 'true' or 'false'",
                  result |-> <<>>]
            ELSE IF has_children_filter.value = TRUE
            THEN [status |-> "ok", message |-> "",
                  result |-> SelectSeq(qs, numchild__gte_0)]
            ELSE [status |-> "ok", message |-> "",
                  result |-> SelectSeq(qs, numchild_0)]
    ELSE [status |-> "ok", message |-> "", result |-> qs]

\* HasChildrenFilter.filter_queryset
HasChildrenFilter_filter_queryset(GET, qs) ==
    IF "has_children" \in DOMAIN GET
    THEN LET has_children_filter == parse_boolean(GET["has_children"])
         IN IF has_children_filter.raised
            THEN [status |-> "BadRequestError",
                  message |-> "has_children must be 'true' or 'false'",
                  result |-> <<>>]
            ELSE IF has_children_filter.value = TRUE
            THEN [status |-> "ok", message |-> "",
                  result |-> SelectSeq(qs, numchild__gt_0)]
            ELSE [status |-> "ok", message |-> "",
                  result |-> SelectSeq(qs, numchild_0)]
    ELSE [status |-> "ok", message |-> "", result |-> qs]

\* filter_queryset that swallows the ValueError and goes on unfiltered
ForExplorerFilter_swallow(GET, qs) ==
    IF "for_explorer" \in DOMAIN GET
    THEN LET for_explorer_filter == parse_boolean(GET["for_explorer"])
         IN IF ~for_explorer_filter.raised /\ for_explorer_filter.value = TRUE
            THEN [status |-> "ok", message |-> "",
                  result |-> SelectSeq(qs, for_explorer_True)]
            ELSE [status |-> "ok", message |-> "", result |-> qs]
    ELSE [status |-> "ok", message |-> "", result |-> qs]

\* filter_queryset with an else branch in the manner of HasChildrenFilter
for_explorer_False(item) == item.for_explorer = FALSE
ForExplorerFilter_else(GET, qs) ==
    IF "for_explorer" \in DOMAIN GET
    THEN LET for_explorer_filter == parse_boolean(GET["for_explorer"])
         IN IF for_explorer_filter.raised
            THEN [status |-> "BadRequestError",
                  message |-> "for_explorer must be 'true' or 'false'",
                  result |-> <<>>]
            ELSE IF for_explorer_filter.value = TRUE
            THEN [status |-> "ok", message |-> "",
                  result |-> SelectSeq(qs, for_explorer_True)]
            ELSE [status |-> "ok", message |-> "",
                  result |-> SelectSeq(qs, for_explorer_False)]
    ELSE [status |-> "ok", message |-> "", result |-> qs]

\* ForExplorerFilter.filter_queryset
ForExplorerFilter_filter_queryset(GET, qs) ==
    IF "for_explorer" \in DOMAIN GET
    THEN LET for_explorer_filter == parse_boolean(GET["for_explorer"])
         IN IF for_explorer_filter.raised
            THEN [status |-> "BadRequestError",
                  message |-> "for_explorer must be 'true' or 'false'",
                  result |-> <<>>]
            ELSE IF for_explorer_filter.value = TRUE
            THEN [status |-> "ok", message |-> "",
                  result |-> SelectSeq(qs, for_explorer_True)]
            ELSE [status |-> "ok", message |-> "", result |-> qs]
    ELSE [status |-> "ok", message |-> "", result |-> qs]

NoResponse == [filter |-> "none", GET |-> <<>>, status |-> "none",
               message |-> "", result |-> <<>>]

\* A listing request passes through HasChildrenFilter
FilterHasChildren ==
    \E GET \in Requests :
        LET out == HasChildrenFilter_filter_queryset(GET, queryset)
        IN /\ response' = [filter |-> "HasChildrenFilter", GET |-> GET,
                           status |-> out.status, message |-> out.message,
                           result |-> out.result]
           /\ UNCHANGED queryset

\* A listing request passes through ForExplorerFilter
FilterForExplorer ==
    \E GET \in Requests :
        LET out == ForExplorerFilter_filter_queryset(GET, queryset)
        IN /\ response' = [filter |-> "ForExplorerFilter", GET |-> GET,
                           status |-> out.status, message |-> out.message,
                           result |-> out.result]
           /\ UNCHANGED queryset

(***************************************************************************)
(*        wagtail/management/commands: set_url_paths, move_pages           *)
(***************************************************************************)
Pages == 1..MaxPages
TreeRoot == 0        \* index of the list of root nodes; also "parent is None"
Slugs == {<<"a">>, <<"b">>}
InitialPaths == {<<>>, <<"/", "x", "/">>}

\* the parent of page p in the forest ch (TreeRoot for a root node)
Parent(ch, p) == CHOOSE q \in DOMAIN ch : p \in Range(ch[q])

RECURSIVE Descendants(_, _)
\* the pages below p
Descendants(ch, p) ==
    Range(ch[p]) \cup UNION {Descendants(ch, c) : c \in Range(ch[p])}

RECURSIVE Reaches(_, _, _)
Reaches(par, p, k) ==
    IF par[p] = TreeRoot THEN TRUE
    ELSE IF k = 0 THEN FALSE
    ELSE Reaches(par, par[p], k - 1)

\* the forests over Pages, as parent functions without a cycle
ParentFunctions ==
    {par \in [Pages -> Pages \cup {TreeRoot}] :
        \A p \in Pages : Reaches(par, p, MaxPages)}

\* Page.get_root_nodes()
get_root_nodes(ch) == ch[TreeRoot]

\* root.get_children()
get_children(ch, root) == ch[root]

\* root.save(): writes the row of the page
save(up, root, path) == [up EXCEPT ![root] = path]

RECURSIVE set_subtree(_, _, _, _)
RECURSIVE set_subtree_children(_, _, _, _)

\* the loop `for child in root.get_children(): self.set_subtree(child, root)`
set_subtree_children(ch, up, root, i) ==
    IF i > Len(get_children(ch, root)) THEN up
    ELSE set_subtree_children(
            ch, set_subtree(ch, up, get_children(ch, root)[i], root), root, i + 1)

\* set_subtree appending to the stored path (+=) instead of replacing it
set_subtree_append(ch, up, root, parent) ==
    LET path == IF parent = TreeRoot
                THEN up[root] \o <<"/">>
                ELSE up[root] \o up[parent] \o slug[root] \o <<"/">>
    IN set_subtree_children(ch, save(up, root, path), root, 1)

\* set_subtree that does not descend into the children
set_subtree_no_descent(ch, up, root, parent) ==
    LET path == IF parent = TreeRoot
                THEN <<"/">>
                ELSE up[parent] \o slug[root] \o <<"/">>
    IN save(up, root, path)

\* Command.set_subtree of set_url_paths; up is the url_path column
set_subtree(ch, up, root, parent) ==
    LET path == IF parent = TreeRoot
                THEN <<"/">>
                ELSE up[parent] \o slug[root] \o <<"/">>
    IN set_subtree_children(ch, save(up, root, path), root, 1)

RECURSIVE set_url_paths_roots(_, _, _)
\* the loop of Command.handle of set_url_paths over the root nodes
set_url_paths_roots(ch, up, i) ==
    IF i > Len(get_root_nodes(ch)) THEN up
    ELSE set_url_paths_roots(
            ch, set_subtree(ch, up, get_root_nodes(ch)[i], TreeRoot), i + 1)

\* Command.handle of set_url_paths
set_url_paths_handle(ch, up) == set_url_paths_roots(ch, up, 1)

\* Page.move(target, pos="last-child"): the page leaves the children of its
\* parent and becomes the last child of the target
move(ch, page, target) ==
    LET removed == [q \in DOMAIN ch |-> SelectSeq(ch[q], LAMBDA c : c # page)]
    IN [removed EXCEPT ![target] = Append(removed[target], page)]

\* Command.handle of move_pages: both pages are looked up (DoesNotExist when
\* an id is unknown); a page cannot move below itself or a descendant
move_pages_handle(ch, from_id, to_id) ==
    IF from_id \notin Pages \/ to_id \notin Pages
    THEN [ok |-> FALSE, children |-> ch]
    ELSE IF to_id = from_id \/ to_id \in Descendants(ch, from_id)
    THEN [ok |-> FALSE, children |-> ch]
    ELSE [ok |-> TRUE, children |-> move(ch, from_id, to_id)]

NoCmd == [op |-> "none", ok |-> TRUE, moved |-> 0, target |-> 0, runs |-> 0,
          previous |-> <<>>]

\* manage.py set_url_paths.  cmd.runs counts the runs in a row (up to 2) and
\* cmd.previous keeps what the run before left when there was one just before;
\* cmd.moved and cmd.target name the move that came just before, if any.
SetUrlPaths ==
    /\ url_path' = set_url_paths_handle(children, url_path)
    /\ cmd' = [op |-> "set_url_paths", ok |-> TRUE,
               moved |-> IF cmd.op = "move_pages" /\ cmd.ok THEN cmd.moved ELSE 0,
               target |-> IF cmd.op = "move_pages" /\ cmd.ok THEN cmd.target ELSE 0,
               runs |-> IF cmd.op = "set_url_paths" THEN 2 ELSE 1,
               previous |-> IF cmd.op = "set_url_paths" THEN url_path ELSE <<>>]
    /\ UNCHANGED <<children, slug>>

\* manage.py move_pages from_id to_id
MovePages ==
    \E from_id \in 1..(MaxPages + 1), to_id \in 1..(MaxPages + 1) :
        \E out \in {move_pages_handle(children, from_id, to_id)} :
           /\ children' = out.children
           /\ cmd' = [op |-> "move_pages", ok |-> out.ok,
                      moved |-> IF out.ok THEN from_id ELSE 0,
                      target |-> IF out.ok THEN to_id ELSE 0,
                      runs |-> 0, previous |-> <<>>]
           /\ UNCHANGED <<slug, url_path>>

\* the user table and the settings when no notifier is under study
IdleUsers ==
    [is_active |-> [u \in Users |-> TRUE],
     email |-> [u \in Users |-> "user@example.com"],
     is_superuser |-> [u \in Users |-> FALSE],
     profile |-> [u \in Users |-> [f \in PreferenceFields |-> TRUE]]]

\* the page table when no command is under study: every page a root
IdleChildren ==
    [q \in 0..MaxPages |-> IF q = TreeRoot THEN SortedSeq(Pages) ELSE <<>>]

\* Any user table within MaxDefects of the defaults, any set of superusers,
\* either value of the setting; no call made yet
InitMail ==
    /\ is_active \in [Users -> BOOLEAN]
    /\ email \in [Users -> {"", "user@example.com"}]
    /\ profile \in [Users -> [PreferenceFields -> BOOLEAN]]
    /\ Defects(is_active, email, profile) <= MaxDefects
    /\ is_superuser \in [Users -> BOOLEAN]
    /\ include_superusers \in BOOLEAN
    /\ call = NoCall
    /\ queryset = <<>>
    /\ response = NoResponse
    /\ children = IdleChildren
    /\ slug = [p \in Pages |-> <<"a">>]
    /\ url_path = [p \in Pages |-> <<>>]
    /\ cmd = NoCmd

\* Any queryset of up to MaxItems rows, whose primary keys are 1, 2, ...
InitFilter ==
    /\ is_active = IdleUsers.is_active
    /\ email = IdleUsers.email
    /\ profile = IdleUsers.profile
    /\ is_superuser = IdleUsers.is_superuser
    /\ include_superusers = TRUE
    /\ call = NoCall
    /\ queryset \in UNION {[1..n -> Items] : n \in 0..MaxItems}
    /\ \A i \in DOMAIN queryset : queryset[i].id = i
    /\ response = NoResponse
    /\ children = IdleChildren
    /\ slug = [p \in Pages |-> <<"a">>]
    /\ url_path = [p \in Pages |-> <<>>]
    /\ cmd = NoCmd

\* Any forest over the pages (siblings in primary-key order), any slugs and
\* any stored url_path values
InitTree ==
    /\ is_active = IdleUsers.is_active
    /\ email = IdleUsers.email
    /\ profile = IdleUsers.profile
    /\ is_superuser = IdleUsers.is_superuser
    /\ include_superusers = TRUE
    /\ call = NoCall
    /\ queryset = <<>>
    /\ response = NoResponse
    /\ \E par \in ParentFunctions :
          children = [q \in 0..MaxPages |-> SortedSeq({p \in Pages : par[p] = q})]
    /\ slug \in [Pages -> Slugs]
    /\ url_path \in [Pages -> InitialPaths]
    /\ cmd = NoCmd

(***************************************************************************)
(*                          specifications                                 *)
(***************************************************************************)
NextMail ==
    \/ NotifierCall /\ UNCHANGED <<filterVars, treeVars>>
    \/ SignalReturn /\ UNCHANGED <<filterVars, treeVars>>
SpecMail == InitMail /\ [][NextMail]_vars

NextFilter ==
    \/ FilterHasChildren /\ UNCHANGED <<mailVars, treeVars>>
    \/ FilterForExplorer /\ UNCHANGED <<mailVars, treeVars>>
SpecFilter == InitFilter /\ [][NextFilter]_vars

NextTree ==
    \/ SetUrlPaths /\ UNCHANGED <<mailVars, filterVars>>
    \/ MovePages /\ UNCHANGED <<mailVars, filterVars>>
SpecTree == InitTree /\ [][NextTree]_vars

TypeOK ==
    /\ call.result \in {"none", "True", "False", "None", "raised"}
    /\ response.status \in {"none", "ok", "BadRequestError"}
    /\ cmd.op \in {"none", "set_url_paths", "move_pages"}

(***************************************************************************)
(*                              properties                                 *)
(***************************************************************************)
Called == call.notifier # "none"
Returned == call.result # "raised"

\* the user may receive the notification of notifier n: active, with an
\* email address, and with the preference of that notification switched on
Allows(u, n) ==
    /\ is_active[u]
    /\ email[u] # ""
    /\ profile[u][notification(n) \o "_notifications"]

Recipients(mails) == UNION {mails[i].recipient_list : i \in DOMAIN mails}

\* C1: whenever a notifier is called with a triggering user in the `user`
\* keyword, that user is neither among the users get_recipient_users returns
\* nor among the recipients of a message that is sent.
C1_ActorExcluded ==
    (Called /\ call.handled /\ call.user # NoUser)
        => /\ call.user \notin call.recipient_users
           /\ call.user \notin Recipients(call.mails)

\* C2: a call on an instance that can be handled, with a non-empty valid
\* recipient set, in which rendering and sending complete without error,
\* returns True; a call on an instance that cannot be handled returns False
\* and sends nothing.
C2_ReturnsTrueOrFalse ==
    /\ (Called /\ call.handled /\ call.recipients # {} /\ Returned)
          => call.result = "True"
    /\ (Called /\ ~call.handled)
          => (call.result = "False" /\ call.mails = <<>>)

\* C3: a call on an instance that can be handled, whose get_valid_recipients
\* result is empty (no candidate, or no candidate that is active, has an email
\* address and has the preference on), renders no template, calls send_mail
\* for no message and returns True.
C3_NoRecipientsNoMessage ==
    /\ (/\ Called /\ call.handled /\ ~call.recipients_raised
        /\ \A u \in call.recipient_users : ~Allows(u, call.notifier))
          => /\ call.recipients = {}
             /\ call.rendered = <<>>
             /\ call.mails = <<>>
             /\ call.result = "True"
    /\ (Called /\ call.handled /\ ~call.recipients_raised /\ call.recipients = {})
          => /\ call.rendered = <<>>
             /\ call.mails = <<>>
             /\ call.result = "True"

C3_Witness ==
    /\ Called /\ call.handled
    /\ call.recipient_users # {}
    /\ NoUser \notin call.recipient_users
    /\ \A u \in call.recipient_users : ~Allows(u, call.notifier)
    /\ call.result = "True"

\* the three templates of the template set were rendered
Rendered == Len(call.rendered) = 3

C9_RecipientsFiltered ==
    /\ \A u \in Recipients(call.mails) :
          /\ is_active[u]
          /\ email[u] # ""
          /\ profile[u][notification(call.notifier) \o "_notifications"]
    /\ (Called /\ call.handled /\ ~call.recipients_raised)
          => call.recipients =
                {u \in call.recipient_users : Allows(u, call.notifier)}
    /\ call.mails # <<>>
          => \A u \in call.recipient_users :
                Allows(u, call.notifier) => u \in Recipients(call.mails)

C9_Witness ==
    /\ call.mails # <<>>
    /\ \E u \in call.recipient_users : ~is_active[u]
    /\ \E u \in call.recipient_users : u \in Recipients(call.mails)

Ids(qs) == {qs[i].id : i \in DOMAIN qs}
Given(name) == name \in DOMAIN response.GET

\* C4: with a truthy has_children, HasChildrenFilter returns exactly the rows
\* whose child count is positive; with a falsy one, exactly the rows whose
\* child count is zero; the two results partition the rows of the queryset.
C4_HasChildren ==
    /\ (response.filter = "HasChildrenFilter" /\ Given("has_children")
        /\ response.GET["has_children"] \in Truthy)
          => /\ response.status = "ok"
             /\ Range(response.result) = {x \in Range(queryset) : x.numchild > 0}
    /\ (response.filter = "HasChildrenFilter" /\ Given("has_children")
        /\ response.GET["has_children"] \in Falsy)
          => /\ response.status = "ok"
             /\ Range(response.result) = {x \in Range(queryset) : x.numchild = 0}
    /\ \A t \in Truthy, f \in Falsy :
          LET yes == HasChildrenFilter_filter_queryset(
                        [n \in {"has_children"} |-> t], queryset).result
              no == HasChildrenFilter_filter_queryset(
                        [n \in {"has_children"} |-> f], queryset).result
          IN /\ Ids(yes) \cup Ids(no) = Ids(queryset)
             /\ Ids(yes) \cap Ids(no) = {}
             /\ Len(yes) + Len(no) = Len(queryset)

C4_Witness ==
    /\ response.filter = "HasChildrenFilter" /\ Given("has_children")
    /\ response.GET["has_children"] \in Truthy
    /\ response.result # <<>>
    /\ response.result # queryset

\* C5: an unparseable has_children (for HasChildrenFilter) or for_explorer
\* (for ForExplorerFilter) raises BadRequestError with the message naming the
\* parameter, and no result set is returned.
C5_BadRequest ==
    /\ (response.filter = "HasChildrenFilter" /\ Given("has_children")
        /\ response.GET["has_children"] \notin Truthy \cup Falsy)
          => /\ response.status = "BadRequestError"
             /\ response.message = "has_children must be 'true' or 'false'"
             /\ response.result = <<>>
    /\ (response.filter = "ForExplorerFilter" /\ Given("for_explorer")
        /\ response.GET["for_explorer"] \notin Truthy \cup Falsy)
          => /\ response.status = "BadRequestError"
             /\ response.message = "for_explorer must be 'true' or 'false'"
             /\ response.result = <<>>

C5_Witness ==
    /\ response.filter = "ForExplorerFilter" /\ Given("for_explorer")
    /\ response.GET["for_explorer"] \in Invalid
    /\ queryset # <<>>
    /\ response.status = "BadRequestError"

\* C10: with a truthy for_explorer, ForExplorerFilter returns exactly the rows
\* whose flag is true; with a falsy one, or none, it returns the queryset
\* unchanged; HasChildrenFilter without has_children returns the queryset
\* unchanged.
C10_ForExplorer ==
    /\ (response.filter = "ForExplorerFilter" /\ Given("for_explorer")
        /\ response.GET["for_explorer"] \in Truthy)
          => /\ response.status = "ok"
             /\ Range(response.result) = {x \in Range(queryset) : x.for_explorer}
             /\ Len(response.result) = Cardinality({x \in Range(queryset) : x.for_explorer})
    /\ (response.filter = "ForExplorerFilter" /\ Given("for_explorer")
        /\ response.GET["for_explorer"] \in Falsy)
          => (response.status = "ok" /\ response.result = queryset)
    /\ (response.filter = "ForExplorerFilter" /\ ~Given("for_explorer"))
          => (response.status = "ok" /\ response.result = queryset)
    /\ (response.filter = "HasChildrenFilter" /\ ~Given("has_children"))
          => (response.status = "ok" /\ response.result = queryset)

C10_Witness ==
    /\ response.filter = "ForExplorerFilter" /\ Given("for_explorer")
    /\ response.GET["for_explorer"] \in Falsy
    /\ \E i \in DOMAIN queryset : queryset[i].for_explorer
    /\ \E i \in DOMAIN queryset : ~queryset[i].for_explorer
    /\ response.result = queryset

\* C6: a run of set_url_paths that directly follows another run leaves every
\* page with the url_path the run before left.
C6_Idempotent ==
    (cmd.op = "set_url_paths" /\ cmd.runs = 2) => url_path = cmd.previous

C6_Witness ==
    /\ cmd.op = "set_url_paths" /\ cmd.runs = 2
    /\ \E p \in Pages : Parent(children, p) # TreeRoot
                        /\ Parent(children, Parent(children, p)) # TreeRoot

\* C7: when set_url_paths runs right after move_pages has moved a page, the
\* page is the last child of the target, its url_path is the url_path of the
\* target plus its slug plus "/", and every descendant of the page has the
\* url_path of its own parent plus its slug plus "/".
C7_MoveThenSetUrlPaths ==
    (cmd.op = "set_url_paths" /\ cmd.moved # 0)
        => /\ Parent(children, cmd.moved) = cmd.target
           /\ children[cmd.target][Len(children[cmd.target])] = cmd.moved
           /\ url_path[cmd.moved] =
                 url_path[cmd.target] \o slug[cmd.moved] \o <<"/">>
           /\ \A d \in Descendants(children, cmd.moved) :
                 url_path[d] = url_path[Parent(children, d)] \o slug[d] \o <<"/">>

C7_Witness ==
    /\ cmd.op = "set_url_paths" /\ cmd.moved # 0
    /\ Descendants(children, cmd.moved) # {}
    /\ Len(children[cmd.target]) >= 1

====
